---- MODULE Spec2Model ----
(***************************************************************************)
(* surface-dtx-daemon: the detach/attach state machine (EventHandler), the *)
(* process task queue with its single consumer, and the two-stage shutdown *)
(* of src/surface-dtx-daemon/src/main.rs.                                  *)
(*                                                                         *)
(* The runtime is single-threaded and cooperative: one poll of a task is   *)
(* one atomic step.  A step of the event task handles one hardware event   *)
(* (EventHandler::handle runs synchronously), a step of the process task   *)
(* runs the consumer loop of setup_process_task until a job suspends (on   *)
(* the attach timer or on a subprocess) or the queue is empty.             *)
(***************************************************************************)
EXTENDS Integers, Sequences, FiniteSets, TLC

\* ------------------------------------------------------------ constants

\* tokio::sync::mpsc::channel(32): the number of jobs the channel buffers.
Capacity == 32

\* tokio_signal::unix::{SIGINT, SIGTERM}
SIGINT == 2

SIGTERM == 15

\* the detach-error code reported on a timeout (0x02)
DETACH_TIMEOUT == 2

\* ------------------------------------------------------------ bounds

\* jobs submitted to schedule_process_task in one behaviour
MaxJobs == 34

\* the position, within one poll, of the hardware command that may fail
MaxFailAt == 2

\* a termination signal or an error of the main task arrives while at most
\* this many jobs have been submitted
MaxJobsAtEnd == 4

\* init_task runs before more than this many jobs have been submitted
MaxJobsAtInit == 1

\* a handler that fails, writes output or cannot be run, and a device
\* command that fails, occur while at most this many jobs have been
\* submitted; later handlers exit with status 0 and no output
MaxJobsAtFault == 10

\* an event that schedules nothing and changes nothing (a change of the
\* device mode or of the latch state, an unhandled event) arrives while at
\* most this many jobs have been submitted
MaxJobsAtPassive == 5

\* consecutive ConnectionChange(Connected) events in Attaching are counted up
\* to this number
MaxRun == 2

\* the commands of detach jobs within one Detaching period are counted up to
\* this number
MaxPeriodCmds == 2

\* ------------------------------------------------------------ value sets

\* enum State { Normal, Detaching, Aborting, Attaching }
State == {"Normal", "Detaching", "Aborting", "Attaching"}

\* device::ConnectionState
ConnectionState == {"Connected", "Disconnected"}

\* device::LatchState
LatchState == {"Closed", "Open"}

\* the detach error codes tried: the timeout code and an unknown one
ErrCodes == {DETACH_TIMEOUT, 1}

\* the two termination signals setup_shutdown_signal listens for
Signals == {SIGINT, SIGTERM}

\* what a job waiting for its subprocess may be resumed with: the Output of
\* the handler, i.e. its exit status (0 or not) and whether it has written
\* to stdout, to stderr, to both or to none; or the error of the wait (the
\* handler was spawned, waiting for it or reading its output failed)
Outcomes ==
    {"exit0", "exit0_out", "exit0_err", "exit0_both",
     "exit1", "exit1_out", "exit1_err", "exit1_both", "ioerr"}

\* output.status.success()
status_success(outcome) ==
    outcome \in {"exit0", "exit0_out", "exit0_err", "exit0_both"}

\* output.stdout.is_empty()
stdout_is_empty(outcome) ==
    outcome \notin {"exit0_out", "exit0_both", "exit1_out", "exit1_both"}

\* output.stderr.is_empty()
stderr_is_empty(outcome) ==
    outcome \notin {"exit0_err", "exit0_both", "exit1_err", "exit1_both"}

\* what may go wrong where a job suspends: the handler executable cannot
\* be spawned (output_async), or the attach timer yields an error (sleep)
Faults == {"none", "spawn", "timer"}

\* the three kinds of boxed task the handler schedules
JobKinds == {"attach", "detach", "detach_abort"}

\* config.handler: which of the three handler executables are set
Configs == [attach : BOOLEAN, detach : BOOLEAN, detach_abort : BOOLEAN]

\* the consumer's slot when no job is in progress
NoJob == [kind |-> "none", id |-> 0, phase |-> "none"]

VARIABLES
    config,          \* config.handler: which handler executables are set
    state,           \* EventHandler.state: Rc<RefCell<State>>
    ignore_request,  \* EventHandler.ignore_request: u32
    queue,           \* the jobs buffered in the mpsc channel, oldest first
    cur,             \* the job the consumer is running (suspended), or NoJob
    event_task,      \* "alive" | "dropped": the event task and its Sender
    shutdown,        \* Shutdown Coordinator: Running | Draining | Terminated
    first_sig,       \* `sig`, the first termination signal (0: none yet)
    second_sig,      \* the second termination signal (0: none yet)
    proc,            \* "running" | "exited" | "panicked"
    exit_code,       \* the exit code once proc = "exited" (else -1)
    init_task,       \* "pending" | "done": main's init_task
    submitted,       \* number of calls of schedule_process_task so far
    accepted,        \* ids of the jobs try_send accepted, in order
    dropped,         \* ids of the jobs dropped because the queue was full
    started,         \* ids of the jobs the consumer started, in order
    completed,       \* ids of the jobs that ran to completion, in order
    cycle,           \* id of the detach job of the latest Normal->Detaching
    period_cmds,     \* commands detach jobs issued since Detaching was entered
    last,            \* the step just taken: [op, arg, res, run, code]
    hw,              \* hardware commands issued by the step just taken
    emitted,         \* DetachState signals emitted by the step just taken
    logs,            \* log records written by the step just taken
    checks           \* MachineState re-checks by detach jobs in that step

vars == <<config, state, ignore_request, queue, cur, event_task, shutdown,
          first_sig, second_sig, proc, exit_code, init_task, submitted, accepted,
          dropped, started, completed, cycle, period_cmds, last, hw,
          emitted, logs, checks>>

\* the variables of the shutdown coordinator and the process
lifeVars == <<event_task, shutdown, first_sig, second_sig, exit_code>>

\* the bookkeeping of the consumer
consumerVars == <<cur, started, completed>>

\* the bookkeeping of enqueue
enqueueVars == <<queue, submitted, accepted, dropped>>

\* ------------------------------------------------------------ helpers

Range(s) == {s[i] : i \in 1..Len(s)}

IsPrefix(s, t) == Len(s) <= Len(t) /\ \A i \in 1..Len(s) : s[i] = t[i]

\* the record of a step: what ran (op), on what (arg), and its result; run
\* and code are set by the handlers that count or carry a code, fault by
\* the polls of the process task
Step(op, arg, res) ==
    [op |-> op, arg |-> arg, res |-> res, run |-> 0, code |-> -1,
     fault |-> "none"]

\* a hardware command: by = 0 for the event handler, else the job's id
HwCmd(cmd, by, ok) == [cmd |-> cmd, by |-> by, ok |-> ok]

\* EventHandler::new and main: the state after construction
Init ==
    /\ config \in Configs
    /\ state = "Normal"
    /\ ignore_request = 0
    /\ queue = <<>>
    /\ cur = NoJob
    /\ event_task = "alive"
    /\ shutdown = "Running"
    /\ first_sig = 0
    /\ second_sig = 0
    /\ proc = "running"
    /\ exit_code = -1
    /\ init_task = "pending"
    /\ submitted = 0
    /\ accepted = <<>>
    /\ dropped = {}
    /\ started = <<>>
    /\ completed = <<>>
    /\ cycle = 0
    /\ period_cmds = 0
    /\ last = Step("init", "", "Ok")
    /\ hw = <<>>
    /\ emitted = <<>>
    /\ logs = <<>>
    /\ checks = <<>>

\* ------------------------------------------------------------ enqueue

\* try_send with a buffer one slot too large
try_send_one_more(q, job) ==
    IF Len(q) <= Capacity
    THEN [full |-> FALSE, queue |-> Append(q, job)]
    ELSE [full |-> TRUE, queue |-> q]

\* try_send that makes room by evicting the oldest job
try_send_evict(q, job) ==
    IF Len(q) < Capacity
    THEN [full |-> FALSE, queue |-> Append(q, job)]
    ELSE [full |-> FALSE, queue |-> Append(Tail(q), job)]

\* Sender::try_send on the bounded channel: the job is appended while fewer
\* than Capacity jobs are buffered, otherwise the send fails with `full`.
\* A job the consumer has taken no longer occupies a slot.
try_send(q, job) ==
    IF Len(q) < Capacity
    THEN [full |-> FALSE, queue |-> Append(q, job)]
    ELSE [full |-> TRUE, queue |-> q]

\* EventHandler::schedule_process_task: a full queue drops the job with a
\* warning; the call returns Ok either way.  (The other error of try_send,
\* a closed channel, needs the receiver dropped, which only happens when the
\* consumer has ended with an error, and that ends the process.)
\* pre: the log records the calling handler wrote before the call.
schedule_process_task(kind, pre) ==
    LET id == submitted + 1
        r == try_send(queue, [kind |-> kind, id |-> id])
    IN  /\ submitted < MaxJobs
        /\ init_task = "done" \/ submitted < MaxJobsAtInit
        /\ submitted' = id
        /\ queue' = r.queue
        /\ accepted' = IF r.full THEN accepted ELSE Append(accepted, id)
        /\ dropped' = IF r.full THEN dropped \cup {id} ELSE dropped
        /\ logs' = IF r.full
                   THEN Append(pre, "warn: process queue is full, dropping task")
                   ELSE pre

\* EventHandler::schedule_task_attach: the attach job is boxed and enqueued
schedule_task_attach(pre) == schedule_process_task("attach", pre)

\* a schedule_task_detach that enqueues the detach-abort job instead
schedule_task_detach_as_abort(pre) == schedule_process_task("detach_abort", pre)

\* EventHandler::schedule_task_detach: the detach job is boxed and enqueued
schedule_task_detach(pre) == schedule_process_task("detach", pre)

\* EventHandler::schedule_task_detach_abort: the job is boxed and enqueued
schedule_task_detach_abort(pre) == schedule_process_task("detach_abort", pre)

\* ------------------------------------------------------------ events

\* the count of commands of the Detaching period after an event: it is kept
\* while MachineState stays Detaching and starts anew otherwise
period_after_event ==
    period_cmds' = IF state = "Detaching" /\ state' = "Detaching"
                   THEN period_cmds ELSE 0

\* the event task is polled: it exists and the process runs
EventTaskRuns == proc = "running" /\ event_task = "alive"

\* a main_task that carries on whatever the handler returned
Returns_and_goes_on(res) == proc' = "running"

\* the result a handler returns to events.for_each: an Err ends the event
\* task, main_task panics (main, lines 82-90)
Returns(res) == proc' = IF res = "Ok" THEN "running" ELSE "panicked"

\* EventHandler::handle dispatches on the classified event.

\* an event that changes neither MachineState, the counter nor the queue and
\* issues no command
passive_event(arg) ==
    /\ EventTaskRuns
    /\ submitted <= MaxJobsAtPassive
    /\ last' = Step("event", arg, "Ok")
    /\ Returns("Ok")
    /\ hw' = <<>> /\ checks' = <<>>
    /\ UNCHANGED <<config, state, ignore_request, cycle, period_cmds,
                   consumerVars, lifeVars, init_task, enqueueVars>>

\* EventHandler::on_opmode_change: the mode is handed to the service, which
\* is all the handler does
on_opmode_change ==
    /\ passive_event("OpModeChange")
    /\ emitted' = <<>>
    /\ logs' = <<>>

\* EventHandler::on_latch_state_change: an open latch is announced as
\* DetachReady
on_latch_state_change(latch) ==
    /\ passive_event(IF latch = "Open" THEN "LatchOpen" ELSE "LatchClosed")
    /\ emitted' = IF latch = "Open" THEN <<"DetachReady">> ELSE <<>>
    /\ logs' = <<>>

\* EventHandler::handle, the arm for an event that is not classified
on_unhandled ==
    /\ passive_event("Unhandled")
    /\ emitted' = <<>>
    /\ logs' = <<"warn: unhandled event">>

\* the number, counted up to MaxRun, of ConnectionChange(Connected) events
\* handled one after the other in Attaching, the event being handled included
connected_run(connection) ==
    IF connection = "Connected" /\ state = "Attaching"
    THEN (IF last.run < MaxRun THEN last.run + 1 ELSE MaxRun)
    ELSE 0

\* a catch-all arm that schedules the attach job once more
connection_invalid_reattach ==
    /\ state' = state
    /\ schedule_task_attach(<<"error: invalid state">>)

\* EventHandler::on_connection_change, the catch-all arm (lines 273-276):
\* the event does not fit the state; an error is logged and nothing else
connection_invalid_state ==
    /\ state' = state
    /\ logs' = <<"error: invalid state">>
    /\ UNCHANGED enqueueVars

\* EventHandler::on_connection_change
on_connection_change(connection) ==
    /\ EventTaskRuns
    /\ last' = [Step("event", connection, "Ok") EXCEPT
                    !.run = connected_run(connection)]
    /\ Returns("Ok")
    /\ hw' = <<>> /\ checks' = <<>>
    /\ UNCHANGED <<config, ignore_request, cycle, consumerVars, lifeVars,
                   init_task>>
    /\ IF state = "Detaching" /\ connection = "Disconnected" THEN
            /\ state' = "Normal"
            /\ emitted' = <<"DetachCompleted">>
            /\ logs' = <<>>
            /\ UNCHANGED enqueueVars
       ELSE IF state = "Normal" /\ connection = "Connected" THEN
            /\ state' = "Attaching"
            /\ emitted' = <<>>
            /\ schedule_task_attach(<<>>)
       ELSE
            /\ emitted' = <<>>
            /\ connection_invalid_state
    /\ period_after_event

\* the early return of on_detach_request without its decrement
detach_request_swallow_keep ==
    /\ ignore_request' = ignore_request
    /\ state' = state
    /\ hw' = <<>> /\ emitted' = <<>> /\ logs' = <<>>
    /\ cycle' = cycle
    /\ last' = Step("event", "DetachRequest", "Ok")
    /\ Returns("Ok")
    /\ UNCHANGED enqueueVars

\* EventHandler::on_detach_request, lines 281-284: an expected duplicate
\* request is swallowed
detach_request_swallow ==
    /\ ignore_request' = ignore_request - 1
    /\ state' = state
    /\ hw' = <<>> /\ emitted' = <<>> /\ logs' = <<>>
    /\ cycle' = cycle
    /\ last' = Step("event", "DetachRequest", "Ok")
    /\ Returns("Ok")
    /\ UNCHANGED enqueueVars

\* a match that treats Detaching like Attaching and Aborting
detach_request_match_no_abort(hwok) ==
    IF state = "Normal" THEN
        /\ state' = "Detaching"
        /\ schedule_task_detach(<<>>)
        /\ cycle' = submitted + 1
        /\ ignore_request' = ignore_request
        /\ hw' = <<>> /\ emitted' = <<>>
        /\ last' = Step("event", "DetachRequest", "Ok")
        /\ Returns("Ok")
    ELSE
        /\ ignore_request' = ignore_request + 1
        /\ hw' = <<HwCmd("latch_request", 0, hwok)>>
        /\ state' = state
        /\ emitted' = <<>> /\ logs' = <<>>
        /\ cycle' = cycle
        /\ last' = Step("event", "DetachRequest", IF hwok THEN "Ok" ELSE "Err")
        /\ Returns(IF hwok THEN "Ok" ELSE "Err")
        /\ UNCHANGED enqueueVars

\* EventHandler::on_detach_request, lines 286-303: the match on the state;
\* hwok: whether the device accepts the latch-request the handler may issue
detach_request_match(hwok) ==
    IF state = "Normal" THEN
        /\ state' = "Detaching"
        /\ schedule_task_detach(<<>>)
        /\ cycle' = submitted + 1
        /\ ignore_request' = ignore_request
        /\ hw' = <<>> /\ emitted' = <<>>
        /\ last' = Step("event", "DetachRequest", "Ok")
        /\ Returns("Ok")
    ELSE IF state = "Detaching" THEN
        /\ state' = "Aborting"
        /\ emitted' = <<"DetachAborted">>
        /\ schedule_task_detach_abort(<<>>)
        /\ cycle' = cycle
        /\ ignore_request' = ignore_request
        /\ hw' = <<>>
        /\ last' = Step("event", "DetachRequest", "Ok")
        /\ Returns("Ok")
    ELSE
        /\ ignore_request' = ignore_request + 1
        /\ hw' = <<HwCmd("latch_request", 0, hwok)>>
        /\ state' = state
        /\ emitted' = <<>> /\ logs' = <<>>
        /\ cycle' = cycle
        /\ last' = Step("event", "DetachRequest", IF hwok THEN "Ok" ELSE "Err")
        /\ Returns(IF hwok THEN "Ok" ELSE "Err")
        /\ UNCHANGED enqueueVars

\* an on_detach_request without its early return
swallows_never == FALSE

\* whether on_detach_request takes its early return
swallows == ignore_request > 0

\* EventHandler::on_detach_request
on_detach_request(hwok) ==
    /\ EventTaskRuns
    /\ IF swallows THEN detach_request_swallow ELSE detach_request_match(hwok)
    /\ period_after_event
    /\ checks' = <<>>
    /\ UNCHANGED <<config, consumerVars, lifeVars, init_task>>

\* the log record on_detach_error writes for an error code
detach_error_log(err) ==
    IF err = DETACH_TIMEOUT THEN "debug: detachment procedure: timed out"
    ELSE "error: unknown error event"

\* on_detach_error forcing the abort in whatever state it is called
detach_error_always(err) ==
    /\ state' = "Aborting"
    /\ schedule_task_detach_abort(<<detach_error_log(err)>>)

\* on_detach_error forcing the abort for the timeout code only
detach_error_timeout_only(err) ==
    IF state = "Detaching" /\ err = DETACH_TIMEOUT THEN
        /\ state' = "Aborting"
        /\ schedule_task_detach_abort(<<detach_error_log(err)>>)
    ELSE
        /\ state' = state
        /\ logs' = <<detach_error_log(err)>>
        /\ UNCHANGED enqueueVars

\* the state-changing part of EventHandler::on_detach_error
detach_error_body(err) ==
    IF state = "Detaching" THEN
        /\ state' = "Aborting"
        /\ schedule_task_detach_abort(<<detach_error_log(err)>>)
    ELSE
        /\ state' = state
        /\ logs' = <<detach_error_log(err)>>
        /\ UNCHANGED enqueueVars

\* EventHandler::on_detach_error
on_detach_error(err) ==
    /\ EventTaskRuns
    /\ last' = [Step("event", "DetachError", "Ok") EXCEPT !.code = err]
    /\ Returns("Ok")
    /\ detach_error_body(err)
    /\ period_after_event
    /\ hw' = <<>> /\ emitted' = <<>> /\ checks' = <<>>
    /\ UNCHANGED <<config, ignore_request, cycle, consumerVars, lifeVars,
                   init_task>>

\* ------------------------------------------------------------ jobs

\* what one poll of the process task works on: the shared cell, the channel,
\* the consumer's slot, and what the poll has done so far.  err: a job has
\* yielded Err or has panicked, and met says on what ("command", "spawn",
\* "timer", "wait"); ended: the receiver has yielded None (closed and empty).
World ==
    [state |-> state, queue |-> queue, cur |-> cur, started |-> started,
     completed |-> completed, hw |-> <<>>, emitted |-> <<>>, logs |-> <<>>,
     checks |-> <<>>, err |-> FALSE, met |-> "none", ended |-> FALSE]

\* device.commands().latch_open() / latch_request() called by job jid; the
\* failAt-th hardware command of the poll fails (0: none does) and `?`
\* makes the job yield the error
job_command(w, cmd, jid, failAt) ==
    LET ok == Len(w.hw) + 1 # failAt
    IN  [w EXCEPT !.hw = Append(@, HwCmd(cmd, jid, ok)), !.err = ~ok,
                  !.met = IF ok THEN @ ELSE "command"]

\* log_process_output: the status is logged when it is a failure or when
\* the handler has written anything, then stdout and stderr when not empty
log_process_output(w, outcome) ==
    LET l1 == IF \/ ~status_success(outcome)
                 \/ ~stdout_is_empty(outcome)
                 \/ ~stderr_is_empty(outcome)
              THEN <<"info: subprocess terminated with status">>
              ELSE <<>>
        l2 == IF ~stdout_is_empty(outcome)
              THEN <<"info: subprocess terminated with stdout">>
              ELSE <<>>
        l3 == IF ~stderr_is_empty(outcome)
              THEN <<"info: subprocess terminated with stderr">>
              ELSE <<>>
    IN  [w EXCEPT !.logs = @ \o l1 \o l2 \o l3]

\* the job has run to completion (Ok): the consumer's slot is free again
job_done(w, jid) ==
    IF w.err THEN w
    ELSE [w EXCEPT !.completed = Append(@, jid), !.cur = NoJob]

\* an attach job that ends without announcing it
attach_finish_silent(w, jid) ==
    job_done([w EXCEPT !.state = "Normal"], jid)

\* the closing step of the attach job (schedule_task_attach, both arms)
attach_finish(w, jid) ==
    job_done([w EXCEPT !.state = "Normal",
                       !.emitted = Append(@, "AttachCompleted")], jid)

\* the detach job with its re-check of MachineState left out
detach_command_unchecked(seen, success) ==
    IF success THEN "latch_open" ELSE "latch_request"

\* the command the detach job issues after its re-check of MachineState
detach_command(seen, success) ==
    IF seen = "Detaching"
    THEN (IF success THEN "latch_open" ELSE "latch_request")
    ELSE "none"

\* a detach job that, like the other two jobs, writes Normal when it ends
detach_finish_resets(w, jid, success, failAt) ==
    LET cmd == detach_command(w.state, success)
        w1 == IF cmd = "none"
              THEN [w EXCEPT !.logs = Append(@,
                      "debug: state changed during detachment, not opening latch")]
              ELSE job_command(w, cmd, jid, failAt)
        w2 == [w1 EXCEPT !.state = "Normal"]
        chk == [jid |-> jid, seen |-> w.state, left |-> w2.state,
                cycle |-> cycle, cmd |-> cmd]
    IN  job_done([w2 EXCEPT !.checks = Append(@, chk)], jid)

\* the closing step of the detach job (schedule_task_detach, both arms):
\* MachineState is read again and the latch command depends on it.  The
\* re-check is recorded: the state seen, the command chosen, and the state
\* the job leaves behind.
detach_finish(w, jid, success, failAt) ==
    LET cmd == detach_command(w.state, success)
        w1 == IF cmd = "none"
              THEN [w EXCEPT !.logs = Append(@,
                      "debug: state changed during detachment, not opening latch")]
              ELSE job_command(w, cmd, jid, failAt)
        chk == [jid |-> jid, seen |-> w.state, left |-> w1.state,
                cycle |-> cycle, cmd |-> cmd]
    IN  job_done([w1 EXCEPT !.checks = Append(@, chk)], jid)

\* the closing step of the detach-abort job (schedule_task_detach_abort)
detach_abort_finish(w, jid) ==
    job_done([w EXCEPT !.state = "Normal"], jid)

\* a consumer that takes the newest job
next_job_newest(q) == q[Len(q)]

\* the job the consumer takes next from the channel
next_job(q) == Head(q)

\* the channel after the consumer has taken that job
rest_jobs(q) == Tail(q)

\* the consumer's slot while job is in progress, waiting at `phase`
InProgress(job, phase) == [kind |-> job.kind, id |-> job.id, phase |-> phase]

\* the job in progress has met the fault: it yields Err (spawn, wait) or
\* panics (timer) in this poll, unfinished
job_fails(w, fault) == [w EXCEPT !.cur.phase = "run", !.err = TRUE,
                                 !.met = fault]

\* tokio_timer::sleep(delay) is polled for the first time: the timer is
\* armed and the job suspends, or the timer yields an error
job_sleep(w, fault) ==
    IF fault = "timer" THEN job_fails(w, "timer")
    ELSE [w EXCEPT !.cur.phase = "sleep"]

\* command.output_async() inside the job: the handler is spawned and the
\* job suspends until it has exited, or the spawn fails and the job yields
\* the error in the same poll
job_spawn(w, fault) ==
    IF fault = "spawn" THEN job_fails(w, "spawn")
    ELSE [w EXCEPT !.cur.phase = "proc"]

\* the first poll of a job: it runs to its first suspension point (the
\* attach timer, the handler subprocess), or to its end when it has none
\* (no handler configured)
job_start(w, job, failAt, fault) ==
    IF job.kind = "attach" THEN
        job_sleep([w EXCEPT !.cur = InProgress(job, "run")], fault)
    ELSE IF job.kind = "detach" THEN
        IF config.detach
        THEN job_spawn([w EXCEPT !.cur = InProgress(job, "run")], fault)
        ELSE detach_finish([w EXCEPT !.cur = InProgress(job, "run")],
                           job.id, TRUE, failAt)
    ELSE
        IF config.detach_abort
        THEN job_spawn([w EXCEPT !.cur = InProgress(job, "run")], fault)
        ELSE detach_abort_finish([w EXCEPT !.cur = InProgress(job, "run")],
                                 job.id)

\* a receiver that reports the end of the stream whenever it is empty
stream_ended_early(w) == TRUE

\* Receiver::poll on an empty channel: None once every Sender is dropped
stream_ended(w) == event_task = "dropped"

\* Receiver::poll with a job buffered: the consumer takes the oldest job
\* and polls it for the first time
take_and_start(w, failAt, fault) ==
    LET job == next_job(w.queue)
    IN  job_start([w EXCEPT !.queue = rest_jobs(@),
                            !.started = Append(@, job.id)], job, failAt,
                  fault)

\* setup_process_task: task_queue_rx.for_each(|task| task).  The loop takes
\* the oldest job and polls it; it goes on to the next job only when that
\* job has completed with Ok, stops on Err, and ends when the channel is
\* closed (the Sender dropped) and empty.  (The world after each job is
\* bound as a value, v, before the loop goes on.)
RECURSIVE for_each(_, _, _)
for_each(w, failAt, fault) ==
    IF w.err \/ w.cur # NoJob THEN w
    ELSE IF w.queue = <<>> THEN
        [w EXCEPT !.ended = stream_ended(w)]
    ELSE
        CHOOSE r \in {for_each(v, failAt, fault) :
                         v \in {take_and_start(w, failAt, fault)}} : TRUE

\* a job whose timer or subprocess has finished is polled again.  After
\* the delay the attach job spawns its handler, when one is set; a job that
\* waits for its handler gets the Output, or the error of the wait.
job_resume(w, outcome, failAt, fault) ==
    LET job == w.cur
        success == status_success(outcome)
    IN  IF job.phase = "sleep" THEN
            IF fault = "timer" THEN job_fails(w, "timer")
            ELSE IF config.attach THEN job_spawn(w, fault)
            ELSE attach_finish(w, job.id)
        ELSE IF outcome = "ioerr" THEN
            [w EXCEPT !.err = TRUE, !.met = "wait"]
        ELSE IF job.kind = "attach" THEN
            attach_finish(log_process_output(w, outcome), job.id)
        ELSE IF job.kind = "detach" THEN
            detach_finish(log_process_output(w, outcome), job.id, success,
                          failAt)
        ELSE
            detach_abort_finish(log_process_output(w, outcome), job.id)

\* the count of commands of the Detaching period after a poll that ended in
\* world w, counted up to MaxPeriodCmds: the commands the jobs of the poll
\* issued are added while MachineState is Detaching
period_after_poll(w) ==
    LET n == period_cmds + Len(w.hw)
    IN  IF w.state # "Detaching" THEN 0
        ELSE IF n < MaxPeriodCmds THEN n ELSE MaxPeriodCmds

\* panic_with_critical_error: the error and its cause are logged at the
\* highest severity before the panic
panic_with_critical_error(kind) ==
    <<IF kind = "Device" THEN "crit: Error: Device error"
      ELSE "crit: Error: Process error",
      "crit: Caused by">>

\* a latch command of the poll that ended in world w has failed
command_failed(w) == \E i \in 1..Len(w.hw) : ~w.hw[i].ok

\* the error a failed poll of the consumer yields: a device error when a
\* latch command failed, else a process error (the handler could not be
\* spawned, or the wait for it failed)
error_kind(w) == IF command_failed(w) THEN "Device" ELSE "Process"

\* failAt = 0 stands for no failing command; failAt = k > 0 is a poll whose
\* k-th command fails, which takes a poll that issues k commands; likewise
\* a fault other than "none" takes a poll that meets it
FailPoint(w, failAt, fault) ==
    /\ failAt = 0 \/ command_failed(w)
    /\ fault = "none" \/ w.met = fault

\* which clone of the shared process task sees the result first.  While
\* draining, the task spawned on the first signal waits on the consumer as
\* well; the order in which the runtime polls the two is not fixed.
poll_orders(w) ==
    IF w.err /\ w.met # "timer" /\ shutdown = "Draining"
    THEN {"process_first", "shutdown_first"}
    ELSE {"process_first"}

\* the records a poll of the consumer that ended in Err leaves: the task of
\* the drain, when it is polled first, logs the error and completes; the
\* process task logs the error chain and panics.  An error of the timer
\* panics inside the job (line 332) and nothing is logged.
error_records(w, order) ==
    IF ~w.err \/ w.met = "timer" THEN <<>>
    ELSE (IF order = "shutdown_first"
          THEN <<"error: error while terminating">> ELSE <<>>)
         \o panic_with_critical_error(error_kind(w))

\* the result of a poll of the process task, as its inputs decide it: Err
\* when the wait for the handler fails, when a command fails, when the
\* handler cannot be spawned or when the timer fails
poll_result(arg, failAt, fault) ==
    IF arg = "ioerr" \/ failAt # 0 \/ fault # "none" THEN "Err" ELSE "Ok"

\* the record of a poll of the process task
PollStep(arg, failAt, fault) ==
    [Step("consumer", arg, poll_result(arg, failAt, fault)) EXCEPT
        !.fault = fault]

\* the coordinator after a poll of the process task that ended in world w.
\* The task of the drain completes when the shared process task resolves:
\* with the end of the consumer, or with the error of a job when the drain
\* is polled before the process task panics.
shutdown_after(w, order) ==
    IF ~w.err /\ w.ended THEN "Terminated"
    ELSE IF w.err /\ order = "shutdown_first" THEN "Terminated"
    ELSE shutdown

\* the state after a poll of the process task that ended in world w: an Err
\* panics (main, lines 93-95); the end of the consumer completes the drain,
\* the runtime has no task left and main returns
After(w, arg, fault) ==
    /\ state' = w.state
    /\ queue' = w.queue
    /\ cur' = w.cur
    /\ started' = w.started
    /\ completed' = w.completed
    /\ hw' = w.hw
    /\ emitted' = w.emitted
    /\ \E order \in poll_orders(w) :
          /\ logs' = w.logs \o error_records(w, order)
          /\ shutdown' = shutdown_after(w, order)
    /\ checks' = w.checks
    /\ last' = [Step("consumer", arg, IF w.err THEN "Err" ELSE "Ok") EXCEPT
                    !.fault = fault]
    /\ proc' = IF w.err THEN "panicked"
               ELSE IF w.ended THEN "exited" ELSE "running"
    /\ exit_code' = IF ~w.err /\ w.ended THEN 0 ELSE exit_code
    /\ period_cmds' = period_after_poll(w)
    /\ UNCHANGED <<config, ignore_request, event_task, first_sig, second_sig,
                   submitted, accepted, dropped, cycle, init_task>>

\* the process task is polled while no job is in progress: there is a job
\* to take, or the channel is closed.  (The record of the step is stated
\* first, from poll_result; After states it again from the world the loop
\* ends in, so a step on which the two disagree does not exist.)
ProcessTaskPoll(failAt, fault) ==
    /\ proc = "running"
    /\ cur = NoJob
    /\ queue # <<>> \/ event_task = "dropped"
    /\ last' = PollStep("poll", failAt, fault)
    /\ \E w0 \in {World} :
          \E w \in {for_each(w0, failAt, fault)} :
              FailPoint(w, failAt, fault) /\ After(w, "poll", fault)

\* the attach job's tokio_timer::sleep(delay) wakes the job: the delay has
\* elapsed, or the timer yields an error
TimerElapsed(failAt, fault) ==
    /\ proc = "running"
    /\ cur.phase = "sleep"
    /\ last' = PollStep("timer", failAt, fault)
    /\ \E w0 \in {job_resume(World, "exit0", failAt, fault)} :
          \E w \in {for_each(w0, failAt, fault)} :
              FailPoint(w, failAt, fault) /\ After(w, "timer", fault)

\* the handler subprocess of the job in progress has finished, or the wait
\* for it has failed
SubprocessDone(outcome, failAt, fault) ==
    /\ proc = "running"
    /\ cur.phase = "proc"
    /\ last' = PollStep(outcome, failAt, fault)
    /\ \E w0 \in {job_resume(World, outcome, failAt, fault)} :
          \E w \in {for_each(w0, failAt, fault)} :
              FailPoint(w, failAt, fault) /\ After(w, outcome, fault)

\* ------------------------------------------------------------ shutdown

\* std::process::exit(128 + sig.unwrap_or(SIGINT)), where sig is the item the
\* closure of signal.map was called with
term_exit_code(sig, next) == 128 + sig

\* a first signal that leaves the event task and its Sender in place
FirstSignal_keeps_events(sig) ==
    /\ proc = "running"
    /\ shutdown = "Running"
    /\ submitted <= MaxJobsAtEnd
    /\ shutdown' = "Draining"
    /\ first_sig' = sig
    /\ init_task = "done"
    /\ event_task' = "alive"
    /\ last' = Step("signal", "first", "Ok")
    /\ logs' = <<"info: shutting down...">>
    /\ hw' = <<>> /\ emitted' = <<>> /\ checks' = <<>>
    /\ UNCHANGED <<config, state, ignore_request, cycle, period_cmds, proc,
                   exit_code, second_sig>>
    /\ UNCHANGED <<enqueueVars, consumerVars, init_task>>

\* setup_shutdown_signal, signal.map: the first termination signal.  main's
\* signal.select(event_task) completes and drops the event task with the
\* Sender; the race of the drain against the next signal is spawned.  (A
\* signal is delivered through the reactor, which the runtime turns to only
\* after it has polled every spawned task once: init_task has run.)
FirstSignal(sig) ==
    /\ proc = "running"
    /\ shutdown = "Running"
    /\ init_task = "done"
    /\ submitted <= MaxJobsAtEnd
    /\ shutdown' = "Draining"
    /\ first_sig' = sig
    /\ event_task' = "dropped"
    /\ last' = Step("signal", "first", "Ok")
    /\ logs' = <<"info: shutting down...">>
    /\ hw' = <<>> /\ emitted' = <<>> /\ checks' = <<>>
    /\ UNCHANGED <<config, state, ignore_request, cycle, period_cmds, proc,
                   exit_code, second_sig>>
    /\ UNCHANGED <<enqueueVars, consumerVars, init_task>>

\* setup_shutdown_signal, term: the next signal arrives before the drain
\* has completed and the process exits
SecondSignal(sig) ==
    /\ proc = "running"
    /\ shutdown = "Draining"
    /\ shutdown' = "Terminated"
    /\ second_sig' = sig
    /\ proc' = "exited"
    /\ exit_code' = term_exit_code(first_sig, sig)
    /\ last' = Step("signal", "second", "Ok")
    /\ logs' = <<"info: terminating...">>
    /\ hw' = <<>> /\ emitted' = <<>> /\ checks' = <<>>
    /\ UNCHANGED <<config, state, ignore_request, cycle, period_cmds,
                   event_task, first_sig>>
    /\ UNCHANGED <<enqueueVars, consumerVars, init_task>>

\* main, lines 82-84: the event stream, the service task or the signal
\* stream ends with an error while main_task is alive; the closure of
\* map_err panics with the error at once, and nothing is logged
MainTaskError(src) ==
    /\ proc = "running"
    /\ shutdown = "Running"
    /\ submitted <= MaxJobsAtEnd
    /\ proc' = "panicked"
    /\ src \in {"events", "service"}
    /\ last' = Step("error", "main_task", "Err")
    /\ logs' = <<>>
    /\ hw' = <<>> /\ emitted' = <<>> /\ checks' = <<>>
    /\ UNCHANGED <<config, state, ignore_request, cycle, period_cmds, lifeVars>>
    /\ UNCHANGED <<enqueueVars, consumerVars, init_task>>

\* main, lines 98-106: init_task asks the device for its operating mode and
\* hands it to the service; when get_opmode fails the error chain is logged
\* and the task panics
InitTask(ok) ==
    /\ proc = "running"
    /\ init_task = "pending"
    /\ init_task' = "done"
    /\ last' = Step("init_task", IF ok THEN "opmode" ELSE "ioerr",
                    IF ok THEN "Ok" ELSE "Err")
    /\ proc' = IF ok THEN "running" ELSE "panicked"
    /\ logs' = IF ok THEN <<>> ELSE panic_with_critical_error("Device")
    /\ hw' = <<>> /\ emitted' = <<>> /\ checks' = <<>>
    /\ UNCHANGED <<config, state, ignore_request, cycle, period_cmds, lifeVars>>
    /\ UNCHANGED <<enqueueVars, consumerVars>>

\* ------------------------------------------------------------ behaviours

ConnectionChange == \E c \in ConnectionState : on_connection_change(c)

DetachRequest == \E hwok \in BOOLEAN : on_detach_request(hwok)

DetachError == \E err \in ErrCodes : on_detach_error(err)

OpModeChange == on_opmode_change

LatchStateChange == \E latch \in LatchState : on_latch_state_change(latch)

Unhandled == on_unhandled

Initialize == \E ok \in BOOLEAN : InitTask(ok)

\* the most commands one poll of the process task can issue.  Only the
\* closing step of a detach job commands the device: the job in progress may
\* close in this poll, and a queued detach job can start and close within
\* one poll only when no detach handler is set (with a handler it suspends).
MaxCommands ==
    (IF cur.kind = "detach" THEN 1 ELSE 0)
    + (IF config.detach THEN 0
       ELSE Cardinality({i \in 1..Len(queue) : queue[i].kind = "detach"}))

\* the commands of a poll that are tried as the failing one (0: none fails)
FailPoints ==
    IF submitted > MaxJobsAtFault THEN {0}
    ELSE 0..(IF MaxCommands < MaxFailAt THEN MaxCommands ELSE MaxFailAt)

\* what is tried to go wrong in one poll: nothing, one of its commands, the
\* spawn of a handler or the timer.  The first failure ends the poll, so at
\* most one of them is met.
FaultsTried ==
    {<<failAt, "none">> : failAt \in FailPoints} \cup
    (IF submitted > MaxJobsAtFault THEN {}
     ELSE {<<0, fault>> : fault \in Faults \ {"none"}})

\* the outcomes of the handler subprocess that are tried
OutcomesTried ==
    IF submitted > MaxJobsAtFault THEN {"exit0"} ELSE Outcomes

ConsumerPoll == \E f \in FaultsTried : ProcessTaskPoll(f[1], f[2])

ConsumerTimer == \E f \in FaultsTried : TimerElapsed(f[1], f[2])

ConsumerSubprocess ==
    \E outcome \in OutcomesTried, f \in FaultsTried :
        SubprocessDone(outcome, f[1], f[2])

Signal1 == \E sig \in Signals : FirstSignal(sig)

Signal2 == \E sig \in Signals : SecondSignal(sig)

Fatal == \E src \in {"events", "service"} : MainTaskError(src)

Next ==
    \/ ConnectionChange
    \/ DetachRequest
    \/ DetachError
    \/ OpModeChange
    \/ LatchStateChange
    \/ Unhandled
    \/ Initialize
    \/ ConsumerPoll
    \/ ConsumerTimer
    \/ ConsumerSubprocess
    \/ Signal1
    \/ Signal2
    \/ Fatal

Spec == Init /\ [][Next]_vars

\* the state after construction with all three handler executables set
InitHandlers ==
    /\ Init
    /\ config = [attach |-> TRUE, detach |-> TRUE, detach_abort |-> TRUE]

\* The behaviours of a daemon configured with all three handlers in which
\* the process task makes progress.  The runtime polls a task that has been
\* woken (WF of ConsumerPoll).  That the attach delay elapses and that a
\* handler which was started exits is not the code's doing (it waits for a
\* handler without a timeout): these are assumptions about the timer and
\* the executables, which the claim checked here grants (WF of
\* ConsumerTimer and ConsumerSubprocess).  Nothing is assumed of the events
\* and the signals.
FairSpec ==
    /\ InitHandlers
    /\ [][Next]_vars
    /\ WF_vars(ConsumerPoll)
    /\ WF_vars(ConsumerTimer)
    /\ WF_vars(ConsumerSubprocess)

\* The steps of the behaviours that can come to a drain.  A first signal
\* arrives only while at most MaxJobsAtEnd jobs have been submitted, and the
\* number of jobs submitted never falls: a behaviour that submits more has
\* no drain, before or after.
DrainNext ==
    \/ ConnectionChange /\ submitted' <= MaxJobsAtEnd
    \/ DetachRequest /\ submitted' <= MaxJobsAtEnd
    \/ DetachError /\ submitted' <= MaxJobsAtEnd
    \/ OpModeChange
    \/ LatchStateChange
    \/ Unhandled
    \/ Initialize
    \/ ConsumerPoll
    \/ ConsumerTimer
    \/ ConsumerSubprocess
    \/ Signal1
    \/ Signal2
    \/ Fatal

\* The behaviours, in every configuration of the handlers, that can come to
\* a drain and in which the process task makes progress: the runtime polls
\* a task that has been woken, the attach delay elapses and every handler
\* that was started exits.  The last two are assumptions about the timer
\* and the executables, not guarantees of the code.
DrainSpec ==
    /\ Init
    /\ [][DrainNext]_vars
    /\ WF_vars(ConsumerPoll)
    /\ WF_vars(ConsumerTimer)
    /\ WF_vars(ConsumerSubprocess)

TypeOK ==
    /\ state \in State
    /\ ignore_request \in Nat
    /\ Len(queue) <= Capacity
    /\ \A i \in 1..Len(queue) : queue[i].kind \in JobKinds
    /\ cur.kind \in JobKinds \cup {"none"}
    /\ shutdown \in {"Running", "Draining", "Terminated"}
    /\ proc \in {"running", "exited", "panicked"}
    /\ submitted \in 0..MaxJobs
    /\ init_task \in {"pending", "done"}

\* ------------------------------------------------------------ claims

\* the hardware commands of the step just taken that a job issued
JobCommands == {i \in 1..Len(hw) : hw[i].by # 0}

\* the re-checks of the step just taken after which the job issued a command
ActingChecks == {j \in 1..Len(checks) : checks[j].cmd # "none"}

\* C1: a detach job issues a hardware command (latch-open, or latch-request
\* when the handler failed) exactly when MachineState is Detaching at its
\* re-check; with any other state at the re-check it issues none.  Every
\* command of a job follows such a re-check, and no latch-open is issued by
\* anything but a detach job.
C1_CommandOnlyWhenDetaching ==
    /\ \A j \in 1..Len(checks) :
          (checks[j].cmd # "none") <=> (checks[j].seen = "Detaching")
    /\ \A i \in JobCommands :
          \E j \in ActingChecks :
              /\ checks[j].jid = hw[i].by
              /\ checks[j].cmd = hw[i].cmd
              /\ checks[j].seen = "Detaching"
    /\ Cardinality(JobCommands) = Cardinality(ActingChecks)
    /\ \A i \in 1..Len(hw) : hw[i].cmd = "latch_open" => hw[i].by # 0

\* C1 witness: a detach job, resumed when its handler exited with 0, has
\* re-checked MachineState, found Detaching and opened the latch.
C1_Witness ==
    /\ last.op = "consumer"
    /\ last.arg = "exit0"
    /\ \E i \in 1..Len(hw) : hw[i].cmd = "latch_open" /\ hw[i].ok
    /\ \E j \in 1..Len(checks) : checks[j].seen = "Detaching"

\* the changes of MachineState the transition table allows
AllowedTransitions ==
    { <<"Normal", "Attaching">>, <<"Normal", "Detaching">>,
      <<"Detaching", "Normal">>, <<"Detaching", "Aborting">>,
      <<"Attaching", "Normal">>, <<"Aborting", "Normal">> }

\* C2: every change of MachineState, by an event or by a job, is one of
\* Normal->Attaching, Normal->Detaching, Detaching->Normal,
\* Detaching->Aborting, Attaching->Normal, Aborting->Normal.
C2_TransitionsFollowTable ==
    [][state' # state => <<state, state'>> \in AllowedTransitions]_vars

\* C2 witness: an attach job has completed and written Normal while an
\* earlier detach job's cycle is long over.
C2_Witness ==
    /\ last.op = "consumer"
    /\ state = "Normal"
    /\ \E i \in 1..Len(emitted) : emitted[i] = "AttachCompleted"
    /\ Len(completed) >= 2

\* C3: a detach job acts (issues latch-open or latch-request) only if
\* MachineState has not changed since the job was scheduled, that is, only
\* within the detach cycle that scheduled it.
C3_NoCommandFromStaleJob ==
    \A j \in 1..Len(checks) :
        checks[j].cmd # "none" => checks[j].jid = checks[j].cycle

\* C4: a DetachRequest handled with IgnoreCounter = 0 in Attaching or
\* Aborting leaves MachineState, increments the counter by one and issues one
\* latch-request; a DetachRequest handled with IgnoreCounter > 0 is
\* swallowed in whatever state: the counter is decremented by one and there
\* is no transition, no hardware command, no enqueue and no emission.  The
\* counter is never negative.
C4_IgnoreCounter ==
    [][ (last'.op = "event" /\ last'.arg = "DetachRequest") =>
          /\ ignore_request >= 0 /\ ignore_request' >= 0
          /\ ignore_request > 0 =>
                /\ ignore_request' = ignore_request - 1
                /\ state' = state
                /\ hw' = <<>> /\ emitted' = <<>>
                /\ UNCHANGED enqueueVars
          /\ (ignore_request = 0 /\ state \in {"Attaching", "Aborting"}) =>
                /\ ignore_request' = 1
                /\ state' = state
                /\ Len(hw') = 1
                /\ hw'[1].cmd = "latch_request" /\ hw'[1].by = 0
                /\ emitted' = <<>>
                /\ UNCHANGED enqueueVars
      ]_vars

\* C4 witness: a DetachRequest has just been swallowed in Normal, a state
\* other than the one its latch-request was issued in.
C4_Witness ==
    /\ last.op = "event" /\ last.arg = "DetachRequest"
    /\ state = "Normal"
    /\ ignore_request = 0
    /\ hw = <<>>

\* the ids of the jobs buffered in the channel, oldest first
QueueIds == [i \in 1..Len(queue) |-> queue[i].id]

\* C5 as stated: when 33 jobs have been submitted and none has completed,
\* exactly one job has been dropped, the 33rd.
C5_DropsOneOf33 ==
    (submitted = 33 /\ completed = <<>>) => dropped = {33}

\* C5 as amended: when 33 jobs have been submitted and the consumer has
\* taken none of them from the queue, exactly one job has been dropped, the
\* 33rd, and the other 32 are buffered in their submission order.
C5_DropsOneOf33Unstarted ==
    (submitted = 33 /\ started = <<>>) =>
        /\ dropped = {33}
        /\ QueueIds = [i \in 1..32 |-> i]
        /\ accepted = QueueIds

\* C5 witness: 33 jobs submitted, none taken, the 33rd dropped.
C5_Witness ==
    /\ submitted = 33
    /\ started = <<>>
    /\ dropped = {33}
    /\ Len(queue) = 32

\* C6: the consumer runs the accepted jobs one at a time and in the order
\* of their acceptance: the jobs started are a prefix of the jobs accepted,
\* the jobs completed are the jobs started but for the one in progress, and
\* at most one job is in progress.
C6_SequentialFifo ==
    /\ IsPrefix(started, accepted)
    /\ Len(started) - Len(completed) <= 1
    /\ cur = NoJob => completed = started
    /\ cur # NoJob => started = Append(completed, cur.id)
    /\ \A i \in 1..Len(queue) : \A k \in 1..Len(started) :
          started[k] < queue[i].id

\* C6 witness: an event has been handled while a job is suspended, after
\* earlier jobs have completed and with later jobs waiting.
C6_Witness ==
    /\ last.op = "event"
    /\ cur # NoJob
    /\ Len(completed) >= 2
    /\ Len(queue) >= 2

\* C7: the exit on the second termination signal has code 128 + the number
\* of that second signal.
C7_ExitCodeOfSecondSignal ==
    (last.op = "signal" /\ last.arg = "second") =>
        exit_code = 128 + second_sig

\* the coordinator leaves Running for Draining on the first signal
LeavesRunning ==
    /\ shutdown = "Running" /\ shutdown' = "Draining"
    /\ last'.op = "signal" /\ last'.arg = "first"
    /\ proc' = "running"

\* the coordinator leaves Draining because the consumer has ended with
\* every accepted job run to completion
DrainCompletes ==
    /\ shutdown = "Draining" /\ shutdown' = "Terminated"
    /\ last'.op = "consumer"
    /\ queue' = <<>> /\ cur' = NoJob
    /\ completed' = accepted'
    /\ proc' = "exited"

\* the coordinator leaves Draining on the second signal: the process exits
\* in that step, the queue and the job in progress left as they are
SecondSignalExits ==
    /\ shutdown = "Draining" /\ shutdown' = "Terminated"
    /\ last'.op = "signal" /\ last'.arg = "second"
    /\ proc' = "exited"
    /\ hw' = <<>> /\ emitted' = <<>>
    /\ UNCHANGED <<state, queue, cur, started, completed>>

\* the coordinator leaves Draining because the consumer has ended with the
\* error of a job: the drain logs the error and completes, the failed job
\* is unfinished and the jobs behind it stay in the queue, and the process
\* task panics in the same step
DrainFails ==
    /\ shutdown = "Draining" /\ shutdown' = "Terminated"
    /\ last'.op = "consumer" /\ last'.res = "Err"
    /\ cur' # NoJob /\ cur'.id \notin Range(completed')
    /\ \E n \in 0..Len(queue) : queue' = SubSeq(queue, n + 1, Len(queue))
    /\ logs' # <<>>
    /\ \E i \in 1..Len(logs') : logs'[i] = "error: error while terminating"
    /\ logs'[Len(logs')] = "crit: Caused by"
    /\ proc' = "panicked"

\* C8 as stated: the coordinator leaves Running only for Draining and only
\* on the first signal; it leaves Draining only for Terminated, either when
\* the consumer has ended with every accepted job run to completion, or on
\* a second signal, and then the process exits in that step with the queue
\* and the job in progress left as they are.
C8_ShutdownTransitions ==
    [][ shutdown' # shutdown =>
          LeavesRunning \/ DrainCompletes \/ SecondSignalExits ]_vars

\* C8 as amended: the coordinator leaves Running only for Draining and only
\* on the first signal; it leaves Draining only for Terminated: when the
\* consumer has ended, either with every accepted job run to completion or
\* with the error of a job, which the drain logs while the failed job and
\* the jobs behind it stay unrun and the process panics; or on a second
\* signal, and then the process exits in that step with the queue and the
\* job in progress left as they are.
C8_ShutdownTransitionsOrError ==
    [][ shutdown' # shutdown =>
          LeavesRunning \/ DrainCompletes \/ DrainFails \/ SecondSignalExits
      ]_vars

\* C8 witness: the drain has ended on the error of a job: the handler of
\* the job could not be spawned, the drain has logged the error, the
\* process has panicked, and a job accepted before the signal is left in the
\* queue.
C8_Witness ==
    /\ last.op = "consumer" /\ last.fault = "spawn"
    /\ shutdown = "Terminated"
    /\ second_sig = 0
    /\ proc = "panicked"
    /\ logs[1] = "error: error while terminating"
    /\ queue # <<>>

\* C9: while the daemon runs, MachineState Attaching or Aborting is
\* eventually followed by Normal.
C9_AttachingAbortingLeadToNormal ==
    [](state \in {"Attaching", "Aborting"} =>
          <>(state = "Normal" \/ proc # "running" \/ shutdown # "Running"))

\* C10: a submission is one enqueue by an event handler that returns Ok and
\* leaves the process running with the event task alive.  With the queue at
\* capacity the job is dropped and the queue and the consumer are left as
\* they are; otherwise the job is appended behind the jobs waiting.  A
\* dropped job is never started.
C10_FullQueueDropsAndGoesOn ==
    [][ /\ submitted' # submitted =>
            /\ submitted' = submitted + 1
            /\ last'.op = "event" /\ last'.res = "Ok"
            /\ proc' = "running" /\ event_task' = "alive"
            /\ UNCHANGED consumerVars
            /\ IF Len(queue) = Capacity
               THEN /\ queue' = queue
                    /\ accepted' = accepted
                    /\ dropped' = dropped \cup {submitted'}
               ELSE /\ Len(queue') = Len(queue) + 1
                    /\ SubSeq(queue', 1, Len(queue)) = queue
                    /\ queue'[Len(queue')].id = submitted'
                    /\ accepted' = Append(accepted, submitted')
                    /\ dropped' = dropped
        /\ Range(started') \cap dropped' = {}
      ]_vars

\* C10 witness: after a job was dropped on a full queue, the handler has
\* handled a following event and the consumer has run jobs.
C10_Witness ==
    /\ dropped # {}
    /\ last.op = "event"
    /\ logs = <<"error: invalid state">>
    /\ proc = "running"
    /\ started # <<>>

\* config.handler has the executable of a job of this kind
HandlerSet(kind) ==
    \/ kind = "attach" /\ config.attach
    \/ kind = "detach" /\ config.detach
    \/ kind = "detach_abort" /\ config.detach_abort

\* the step just taken met an error: a hardware command failed, a handler
\* subprocess could not be spawned or the wait for it failed, the attach
\* timer failed, the query of init_task failed, or the event stream or the
\* service task ended with an error
StepFailed ==
    \/ \E i \in 1..Len(hw) : ~hw[i].ok
    \/ last.op = "consumer" /\ last.fault # "none"
    \/ last.op \in {"consumer", "init_task"} /\ last.arg = "ioerr"
    \/ last.op = "error"

\* C11: a step that meets an error (a failed latch-request of the event
\* handler, an error of the event stream or the service task, a job that
\* could not run its subprocess or whose latch command failed) ends the
\* process in that very step; the failed command is the last command
\* issued, the failed job is the last job started and stays unfinished, a
\* job whose handler cannot be spawned fails in the poll that reaches the
\* spawn, and once the process has ended on an error there is no further
\* step at all: no event handled, no job started, no command issued.  A
\* step that only drops a job on a full queue leaves the process running.
C11_ErrorsAreFatal ==
    [][ /\ StepFailed' <=> proc' = "panicked"
        /\ StepFailed' <=> last'.res = "Err"
        /\ \A i \in 1..Len(hw') : ~hw'[i].ok => i = Len(hw')
        /\ (StepFailed' /\ last'.op = "consumer") =>
              /\ cur' # NoJob
              /\ started'[Len(started')] = cur'.id
              /\ cur'.id \notin Range(completed')
        /\ (last'.op = "consumer" /\ last'.res = "Ok" /\ cur' # NoJob) =>
              cur'.phase \in {"sleep", "proc"}
        /\ (last'.op = "consumer" /\ last'.fault = "spawn") =>
              /\ HandlerSet(cur'.kind)
              /\ cur'.id \in Range(started') \ Range(started)
                    \/ (cur.id = cur'.id /\ cur.phase = "sleep")
        /\ (dropped' # dropped /\ ~StepFailed') => proc' = "running"
        /\ proc # "panicked"
      ]_vars

\* C11 witness: the poll that started a detach or detach-abort job could
\* not spawn its handler: the process has ended in that poll with the error
\* chain logged, and a job accepted earlier is left in the queue unstarted.
C11_Witness ==
    /\ proc = "panicked"
    /\ last.op = "consumer" /\ last.arg = "poll" /\ last.fault = "spawn"
    /\ cur.kind \in {"detach", "detach_abort"}
    /\ started[Len(started)] = cur.id
    /\ logs = panic_with_critical_error("Process")
    /\ queue # <<>>

\* the invalid-state errors among the log records r
InvalidStateErrors(r) == {i \in 1..Len(r) : r[i] = "error: invalid state"}

\* the step handles a ConnectionChange(Connected) in Attaching
ConnectedInAttaching ==
    /\ state = "Attaching"
    /\ last'.op = "event" /\ last'.arg = "Connected"

\* the step handles the second of two consecutive ConnectionChange(Connected)
\* events that are both handled in Attaching
SecondConnectedInAttaching == ConnectedInAttaching /\ last.run >= 1

\* C12 as stated: two consecutive ConnectionChange(Connected) events handled
\* in Attaching log exactly one invalid-state error between them, leave
\* MachineState at Attaching and the counter and the queue unchanged.
C12_TwoConnectedLogOneError ==
    [][ SecondConnectedInAttaching =>
          /\ Cardinality(InvalidStateErrors(logs)) +
                Cardinality(InvalidStateErrors(logs')) = 1
          /\ state' = "Attaching"
          /\ ignore_request' = ignore_request
          /\ UNCHANGED enqueueVars
      ]_vars

\* C12 as amended: every ConnectionChange(Connected) event handled in
\* Attaching logs exactly one invalid-state error, leaves MachineState at
\* Attaching and the counter and the queue unchanged, and issues and emits
\* nothing; two consecutive such events log two errors, one each.  Exactly
\* one error is logged over a pair of consecutive Connected events when the
\* first of them is handled in Normal and makes the change to Attaching.
C12_EachConnectedLogsOneError ==
    [][ /\ ConnectedInAttaching =>
              /\ logs' = <<"error: invalid state">>
              /\ state' = "Attaching"
              /\ ignore_request' = ignore_request
              /\ hw' = <<>> /\ emitted' = <<>>
              /\ UNCHANGED enqueueVars
              /\ UNCHANGED consumerVars
        /\ SecondConnectedInAttaching =>
              Cardinality(InvalidStateErrors(logs)) +
                Cardinality(InvalidStateErrors(logs')) = 2
        /\ ( /\ ConnectedInAttaching
             /\ last.op = "event" /\ last.arg = "Connected" /\ last.run = 0 ) =>
              /\ submitted >= 1 /\ InvalidStateErrors(logs) = {}
              /\ Cardinality(InvalidStateErrors(logs)) +
                    Cardinality(InvalidStateErrors(logs')) = 1
      ]_vars

\* C12 witness: two ConnectionChange(Connected) events have been handled one
\* after the other in Attaching, with the attach job still waiting.
C12_Witness ==
    /\ last.op = "event" /\ last.arg = "Connected"
    /\ last.run = 2
    /\ state = "Attaching"
    /\ logs = <<"error: invalid state">>
    /\ \E i \in 1..Len(queue) : queue[i].kind = "attach"

\* the jobs the step works on: the job in progress and the jobs it starts
TouchedJobs ==
    (IF cur # NoJob THEN {cur.id} ELSE {}) \cup
    (Range(started') \ Range(started))

\* the kind of a job that is in progress or waiting in the queue
KindOf(id) ==
    IF cur.id = id THEN cur.kind
    ELSE (CHOOSE job \in Range(queue) : job.id = id).kind

\* the step resumes a detach job in Detaching whose handler has exited with 0
ScenarioB ==
    /\ last'.op = "consumer" /\ status_success(last'.arg)
    /\ cur.kind = "detach" /\ cur.phase = "proc"
    /\ state = "Detaching"

\* C13: a detach job changes neither MachineState nor IgnoreCounter: no
\* step of the consumer changes the counter, every detach job leaves the
\* MachineState it saw at its re-check, and a step of the consumer that
\* works on detach jobs only leaves MachineState and emits nothing.  In
\* Scenario B (Detaching, handler exits 0) the job issues exactly one
\* command, latch-open, and leaves Detaching; it has then completed unless
\* the command failed.
C13_DetachJobLeavesState ==
    [][ last'.op = "consumer" =>
          /\ ignore_request' = ignore_request
          /\ \A j \in 1..Len(checks') : checks'[j].left = checks'[j].seen
          /\ (\A id \in TouchedJobs : KindOf(id) = "detach") =>
                state' = state /\ emitted' = <<>>
          /\ ScenarioB =>
                /\ checks'[1] = [jid |-> cur.id, seen |-> "Detaching",
                                 left |-> "Detaching", cycle |-> cycle,
                                 cmd |-> "latch_open"]
                /\ {i \in 1..Len(hw') : hw'[i].by = cur.id} = {1}
                /\ hw'[1].cmd = "latch_open"
                /\ hw'[1].ok => cur.id \in Range(completed')
                /\ queue = <<>> => state' = "Detaching"
      ]_vars

\* C13 witness: Scenario B has run: the detach job, resumed with exit
\* status 0, has opened the latch and completed, and MachineState is still
\* Detaching.
C13_Witness ==
    /\ last.op = "consumer" /\ last.arg = "exit0"
    /\ state = "Detaching"
    /\ cur = NoJob
    /\ Len(hw) = 1 /\ hw[1].cmd = "latch_open" /\ hw[1].ok
    /\ Len(checks) = 1 /\ checks[1].jid = hw[1].by
    /\ hw[1].by \in Range(completed)

\* C14: a DetachError handled in Detaching, whatever its code, sets
\* MachineState to Aborting and makes exactly one enqueue attempt, of a
\* detach-abort job (appended, or dropped with a warning when the queue is
\* full); handled in Normal, Attaching or Aborting it changes neither
\* MachineState nor the queue.  In every state the counter is unchanged, no
\* hardware command is issued, nothing is emitted and the handler returns
\* Ok.  The code selects the log record only: `timed out` for the timeout
\* code, `unknown error` for any other.
C14_DetachErrorForcesAbort ==
    [][ (last'.op = "event" /\ last'.arg = "DetachError") =>
          /\ last'.code \in ErrCodes
          /\ ignore_request' = ignore_request
          /\ hw' = <<>> /\ emitted' = <<>>
          /\ last'.res = "Ok" /\ proc' = "running"
          /\ UNCHANGED consumerVars
          /\ logs'[1] = IF last'.code = DETACH_TIMEOUT
                        THEN "debug: detachment procedure: timed out"
                        ELSE "error: unknown error event"
          /\ IF state = "Detaching"
             THEN /\ state' = "Aborting"
                  /\ submitted' = submitted + 1
                  /\ \/ /\ queue' = Append(queue, [kind |-> "detach_abort",
                                                   id |-> submitted'])
                        /\ accepted' = Append(accepted, submitted')
                        /\ dropped' = dropped
                        /\ Len(logs') = 1
                     \/ /\ Len(queue) = Capacity
                        /\ queue' = queue /\ accepted' = accepted
                        /\ dropped' = dropped \cup {submitted'}
                        /\ Len(logs') = 2
             ELSE /\ state' = state
                  /\ UNCHANGED enqueueVars
                  /\ Len(logs') = 1
      ]_vars

\* C14 witness: a DetachError with an unknown code, handled in Detaching,
\* has forced Aborting and enqueued the detach-abort job.
C14_Witness ==
    /\ last.op = "event" /\ last.arg = "DetachError"
    /\ last.code # DETACH_TIMEOUT
    /\ state = "Aborting"
    /\ logs = <<"error: unknown error event">>
    /\ queue # <<>>
    /\ queue[Len(queue)] = [kind |-> "detach_abort", id |-> submitted]

\* C15 (Scenario C): every DetachRequest handled in Detaching sets
\* MachineState to Aborting, emits DetachAborted exactly once and makes
\* exactly one enqueue attempt, of a detach-abort job (appended, or dropped
\* with a warning when the queue is full); the handler issues no hardware
\* command, leaves the counter and returns Ok.
C15_SecondRequestAborts ==
    [][ ( /\ last'.op = "event" /\ last'.arg = "DetachRequest"
          /\ state = "Detaching" ) =>
          /\ state' = "Aborting"
          /\ emitted' = <<"DetachAborted">>
          /\ hw' = <<>>
          /\ ignore_request' = ignore_request
          /\ last'.res = "Ok" /\ proc' = "running"
          /\ UNCHANGED consumerVars
          /\ submitted' = submitted + 1
          /\ \/ /\ queue' = Append(queue, [kind |-> "detach_abort",
                                           id |-> submitted'])
                /\ accepted' = Append(accepted, submitted')
                /\ dropped' = dropped
                /\ logs' = <<>>
             \/ /\ Len(queue) = Capacity
                /\ queue' = queue /\ accepted' = accepted
                /\ dropped' = dropped \cup {submitted'}
                /\ logs' = <<"warn: process queue is full, dropping task">>
      ]_vars

\* C15 witness: the second DetachRequest of a cycle has been handled while
\* the detach job of that cycle waits for its handler: Aborting,
\* DetachAborted emitted, the detach-abort job enqueued.
C15_Witness ==
    /\ last.op = "event" /\ last.arg = "DetachRequest"
    /\ state = "Aborting"
    /\ emitted = <<"DetachAborted">>
    /\ cur.kind = "detach" /\ cur.phase = "proc" /\ cur.id = cycle
    /\ queue = <<[kind |-> "detach_abort", id |-> submitted]>>

\* the AttachCompleted signals among the emissions e
AttachCompleted(e) == {i \in 1..Len(e) : e[i] = "AttachCompleted"}

\* the step resumes the attach job in progress at its last suspension: the
\* handler has exited (with whatever status), or the delay has elapsed and
\* no handler is configured
AttachJobCompletes ==
    /\ last'.op = "consumer"
    /\ cur.kind = "attach"
    /\ \/ cur.phase = "proc" /\ last'.arg \in Outcomes \ {"ioerr"}
       \/ cur.phase = "sleep" /\ ~config.attach /\ last'.fault # "timer"

\* C16: a ConnectionChange(Connected) handled in Normal sets MachineState to
\* Attaching and makes exactly one enqueue attempt, of an attach job, and
\* emits nothing.  The step in which the attach job completes, whatever the
\* exit status of its handler, takes MachineState from Attaching to Normal
\* and emits AttachCompleted exactly once; the job does not complete before
\* its delay has elapsed.  AttachCompleted is emitted in no other step.
C16_AttachCycle ==
    [][ /\ ( /\ last'.op = "event" /\ last'.arg = "Connected"
             /\ state = "Normal" ) =>
              /\ state' = "Attaching"
              /\ emitted' = <<>> /\ hw' = <<>>
              /\ submitted' = submitted + 1
              /\ \/ /\ queue' = Append(queue, [kind |-> "attach",
                                               id |-> submitted'])
                    /\ accepted' = Append(accepted, submitted')
                    /\ dropped' = dropped
                 \/ /\ Len(queue) = Capacity
                    /\ queue' = queue /\ accepted' = accepted
                    /\ dropped' = dropped \cup {submitted'}
        /\ AttachJobCompletes =>
              /\ state = "Attaching" /\ state' = "Normal"
              /\ Cardinality(AttachCompleted(emitted')) = 1
              /\ completed' = Append(completed, cur.id)
              /\ cur' = NoJob
              /\ proc' # "panicked"
        /\ AttachCompleted(emitted') # {} => AttachJobCompletes
        /\ \A id \in Range(completed') \ Range(completed) :
              KindOf(id) = "attach" => AttachJobCompletes /\ id = cur.id
      ]_vars

\* C16 witness: an attach job whose handler exited with a non-zero status
\* has completed: Normal, AttachCompleted emitted.
C16_Witness ==
    /\ last.op = "consumer" /\ last.arg = "exit1"
    /\ emitted = <<"AttachCompleted">>
    /\ state = "Normal"
    /\ logs = <<"info: subprocess terminated with status">>
    /\ cur = NoJob /\ completed # <<>>

\* the kinds and ids of the jobs pending: waiting in the queue or in progress
Pending ==
    {[kind |-> job.kind, id |-> job.id] : job \in Range(queue)} \cup
    (IF cur # NoJob THEN {[kind |-> cur.kind, id |-> cur.id]} ELSE {})

\* an attach job is pending only in Attaching, a detach-abort job only in
\* Aborting, and at most one job of these two kinds is pending
PendingJobsMatchState ==
    /\ \A job \in Pending :
          /\ job.kind = "attach" => state = "Attaching"
          /\ job.kind = "detach_abort" => state = "Aborting"
    /\ Cardinality({job \in Pending : job.kind # "detach"}) <= 1

\* the jobs that complete in the step
Completing == Range(completed') \ Range(completed)

\* a step in which an attach job completes starts in Attaching, one in which
\* a detach-abort job completes starts in Aborting; each ends in Normal, and
\* no step of the consumer that starts in Detaching changes MachineState
NormalWritesStartRight ==
    /\ \A id \in Completing :
          /\ KindOf(id) = "attach" => state = "Attaching" /\ state' = "Normal"
          /\ KindOf(id) = "detach_abort" =>
                state = "Aborting" /\ state' = "Normal"
    /\ (last'.op = "consumer" /\ state = "Detaching") => state' = "Detaching"

\* C17: in every reachable state an attach job is pending only if
\* MachineState is Attaching, a detach-abort job only if it is Aborting, and
\* at most one attach or detach-abort job is pending; so the write of Normal
\* that ends an attach job starts from Attaching, the one that ends a
\* detach-abort job starts from Aborting, and none overwrites Detaching.
C17_PendingJobs == []PendingJobsMatchState /\ [][NormalWritesStartRight]_vars

\* C17 witness: an attach job waits in the queue behind two detach jobs of
\* earlier cycles, the first of them in progress, and MachineState is
\* Attaching.
C17_Witness ==
    /\ state = "Attaching"
    /\ cur.kind = "detach"
    /\ Len(queue) = 2
    /\ queue[1].kind = "detach" /\ queue[2].kind = "attach"

\* C18: within one uninterrupted period of MachineState Detaching the
\* detach jobs issue at most one hardware command (latch-open or
\* latch-request) in total.
C18_OneCommandPerDetachingPeriod == period_cmds <= 1

\* C19: in every reachable state IgnoreCounter is 0 or 1, and it is 0
\* whenever MachineState is Detaching, so that on_detach_request does not
\* take its early return there and a DetachRequest reaches the match on the
\* state.
C19_CounterZeroOrOne ==
    /\ ignore_request \in {0, 1}
    /\ state = "Detaching" => ignore_request = 0 /\ ~swallows

\* C19 witness: the counter is 1 in Normal: a latch-request was issued in
\* Attaching or Aborting and the job has completed before the answering
\* DetachRequest was handled.
C19_Witness ==
    /\ ignore_request = 1
    /\ state = "Normal"
    /\ last.op = "consumer"
    /\ proc = "running"

\* what holds of every step taken once the first signal has been processed:
\* the event task stays dropped, the step is no event, nothing is submitted,
\* accepted or dropped and the queue only shrinks, the counter is left, only
\* the consumer changes MachineState, and every hardware command is a job's
AfterFirstSignal ==
    shutdown # "Running" =>
        /\ event_task = "dropped" /\ event_task' = "dropped"
        /\ last'.op # "event"
        /\ UNCHANGED <<submitted, accepted, dropped, ignore_request>>
        /\ \E n \in 0..Len(queue) : queue' = SubSeq(queue, n + 1, Len(queue))
        /\ state' # state => last'.op = "consumer"
        /\ \A i \in 1..Len(hw') : hw'[i].by # 0
        /\ IsPrefix(started', accepted) /\ IsPrefix(started, started')

\* the consumer ends only when it has run every accepted job, in the order
\* of acceptance, and the process then exits with code 0
DrainEnds ==
    (last'.op = "consumer" /\ proc' = "exited") =>
        /\ shutdown = "Draining" /\ shutdown' = "Terminated"
        /\ started' = accepted /\ completed' = accepted
        /\ queue' = <<>> /\ cur' = NoJob
        /\ exit_code' = 0

\* the drain has come to the end the claim names: the consumer has ended
\* with every accepted job completed, or a second signal has exited the
\* process
DrainedOrSecondSignal ==
    /\ proc # "running"
    /\ \/ proc = "exited" /\ second_sig = 0 /\ completed = accepted
       \/ second_sig # 0

\* the failure of a job has ended the process during the drain, with the
\* failed job unfinished
DrainPanicked ==
    /\ proc = "panicked"
    /\ second_sig = 0
    /\ cur # NoJob

\* C20 as stated: the first signal drops the event task with the Sender.
\* From then on no event is handled, no job is enqueued and the event
\* handler changes nothing and commands nothing, while the consumer goes on
\* running the jobs accepted before the signal, in order; every drain comes
\* to its end: the consumer ends with every accepted job completed, unless
\* a second signal exits the process first.
C20_DrainAfterFirstSignal ==
    /\ [][AfterFirstSignal /\ DrainEnds]_vars
    /\ [](shutdown = "Draining" => <>DrainedOrSecondSignal)

\* C20 as amended: the first signal drops the event task with the Sender.
\* From then on no event is handled, no job is enqueued and the event
\* handler changes nothing and commands nothing, while the consumer goes on
\* running the jobs accepted before the signal, in order.  Provided the
\* process task is polled when it can go on, the attach delay elapses and
\* every handler that was started exits, every drain comes to an end: the
\* consumer ends with every accepted job completed, unless a second signal
\* exits the process first or a job fails, which ends the process by panic
\* with that job unfinished and the jobs behind it unrun.
C20_DrainUnlessJobFails ==
    /\ [][AfterFirstSignal /\ DrainEnds]_vars
    /\ [](shutdown = "Draining" =>
            <>(DrainedOrSecondSignal \/ DrainPanicked))

\* C20 witness: the drain has ended without a second signal; the last job,
\* a detach job accepted before the signal, has opened the latch during the
\* drain and every accepted job has completed.
C20_Witness ==
    /\ shutdown = "Terminated" /\ proc = "exited" /\ second_sig = 0
    /\ first_sig # 0
    /\ last.op = "consumer"
    /\ \E i \in 1..Len(hw) : hw[i].cmd = "latch_open"
    /\ Len(completed) >= 2 /\ completed = accepted

====
